---- MODULE Spec2Model ----
(***************************************************************************)
(* xtractor: the Scroll-and-Collect driver (Xtractor._scroll_and_scrape),  *)
(* the post identifier (XPost.url / XPost.id) and the session scope        *)
(* (Xtractor.__enter__ / __exit__), modelled as a state machine.           *)
(*                                                                         *)
(* The browser is the environment: a feed of NPosts posts of which the     *)
(* window lo..hi is rendered, one render generation per post (a handle     *)
(* obtained before the post was re-rendered is stale), and a window that   *)
(* may be closed.                                                          *)
(***************************************************************************)
EXTENDS Integers, Sequences, FiniteSets, TLC

\* ---------------------------------------------------------------- bounds
NPosts == 2      \* posts of the feed
MaxGen == 1      \* re-renders of one post
MaxLimit == 2    \* largest requested count

Posts == 1..NPosts
Limits == (0 - 1)..MaxLimit

\* ------------------------------------------------------------ post.py
\* None / "" for a URL (both are falsy at post.py:100 and post.py:159).
NoUrl == << >>
\* None for an identifier; no path segment of the model is this string.
NoneId == "None"

\* The canonical URL of feed post p, as url.split("/") sees it.
PostUrl(p) == <<"https:", "", "x.com", "user", "status", ToString(p)>>

\* XPost.__init__(soup, url=None)
XPost(soup, url) == [soup |-> soup, url |-> url]

\* XPost.url: `if self._url: return self._url` (else None).
XPostUrl(x) == IF x.url # << >> THEN x.url ELSE NoUrl

\* XPost.id: `if self.url: return self.url.split("/")[-1]` (else None).
XPostId(x) ==
    IF XPostUrl(x) # << >> THEN XPostUrl(x)[Len(XPostUrl(x))] ELSE NoneId

\* XPost.get_attributes: post_id, url, and the fields read from the markup
\* (text, date, author, media, flags, impressions), kept as the markup.
GetAttributes(x) == [post_id |-> XPostId(x), url |-> XPostUrl(x), soup |-> x.soup]

\* The URL argument the driver gives the parser: XPost(soup=post_soup), none.
DriverUrl(p) == NoUrl

\* ------------------------------------------------------------- state
VARIABLES
    pc,            \* position of the run
    scope,         \* "inside" / "left": the with-block around the run
    driverOpen,    \* the WebDriver has not been quit
    exc,           \* the exception that ended the run ("none" if none)
    limit,         \* argument of _scroll_and_scrape
    user_posts,    \* accumulated records
    post_ids,      \* identifiers seen
    post_elements, \* the variable post_elements (re-assigned on a stale read)
    iter,          \* the list object enumerate() iterates
    index,         \* enumerate's index, 1-based
    lo, hi,        \* the rendered window of the feed; hi is the scroll extent
    gen,           \* render generation of each post
    windowOpen,    \* the browser window still exists
    scrollGrew,    \* ghost: the last scroll: "none", "grew", "stalled", "failed"
    phase,         \* ghost: "none", "first", "second", "later" pass
    passParsed,    \* ghost: posts parsed in the current pass
    prevParsed,    \* ghost: posts parsed in the pass before
    passAdded,     \* ghost: records appended in the current pass
    prevAdded,     \* ghost: records appended in the pass before
    last,          \* ghost: the last parse, << >> or <<[post, id, kept, via]>>
    closedAt,      \* ghost: records held when the window closed, -1 if open
    inp,           \* the input of a parser run: a string or a post markup
    out,           \* the outcome of the last call: << >> or <<[exc, val, ...]>>
    user,          \* the XUser object: << >> before construction
    log            \* ghost: what was asked of the session (navigations, lookups)

vars == <<pc, scope, driverOpen, exc, limit, user_posts, post_ids,
          post_elements, iter, index, lo, hi, gen, windowOpen, scrollGrew,
          phase, passParsed, prevParsed, passAdded, prevAdded, last, closedAt,
          inp, out, user, log>>

\* The variables of the scroll-and-collect run, and those of the parsers and
\* of the profile parser.
dvars == <<pc, scope, driverOpen, exc, limit, user_posts, post_ids,
           post_elements, iter, index, lo, hi, gen, windowOpen, scrollGrew,
           phase, passParsed, prevParsed, passAdded, prevAdded, last, closedAt>>
aux == <<inp, out, user, log>>

prog == <<limit, user_posts, post_ids, post_elements, iter, index>>
env == <<lo, hi, gen, windowOpen, closedAt>>
passGhost == <<phase, passParsed, prevParsed, passAdded, prevAdded>>

Running == {"nav", "loop", "scroll", "locate", "read", "refetch", "retry"}

\* ------------------------------------------------------- the browser
\* Handles of the rendered posts, in document order.
Rendered == [i \in 1..(IF hi >= lo THEN hi - lo + 1 ELSE 0) |->
                [p |-> lo + i - 1, g |-> gen[lo + i - 1]]]

\* A handle is stale once its post was re-rendered or left the document.
IsStale(h) == h.g # gen[h.p] \/ h.p < lo \/ h.p > hi

Init ==
    /\ pc = "nav"
    /\ scope = "inside"
    /\ driverOpen = TRUE
    /\ exc = "none"
    /\ limit \in Limits
    /\ user_posts = << >>
    /\ post_ids = {}
    /\ post_elements = << >>
    /\ iter = << >>
    /\ index = 1
    /\ lo = 1
    /\ hi \in 0..NPosts
    /\ gen = [p \in Posts |-> 0]
    /\ windowOpen = TRUE
    /\ scrollGrew = "none"
    /\ phase = "none"
    /\ passParsed = {}
    /\ prevParsed = {}
    /\ passAdded = 0
    /\ prevAdded = 0
    /\ last = << >>
    /\ closedAt = 0 - 1
    /\ inp = << >>
    /\ out = << >>
    /\ user = << >>
    /\ log = << >>

\* ------------------------------------------------ selenium lookups
\* Mutant of PresenceOfAllTimesOut: find_elements without the wait's
\* timeout, an empty list instead of TimeoutException.
PresenceOfAllNeverTimesOut(rendered) == FALSE

\* self.wait.until(EC.presence_of_all_elements_located(...)): the handles
\* of the rendered posts, or TimeoutException when none is rendered within
\* the wait.
PresenceOfAllTimesOut(rendered) == rendered = << >>

\* Mutant of Reindex: the re-fetched batch is read at its head.
ReindexFirst(elems, i) == elems[1]

\* post_elements[index] after the re-fetch (1-based here).
Reindex(elems, i) == elems[i]

\* Mutant of Seen: the membership test is dropped.
SeenNever(id, ids) == FALSE

\* `x_post.id not in post_ids`, negated.
Seen(id, ids) == id \in ids

\* _wait_for_scroll: the poll ends early when the extent grew, and else when
\* wait_time has elapsed; it returns nothing either way.
WaitForScroll(initial, new) == IF new > initial THEN "grew" ELSE "stalled"

Raise(e) ==
    /\ pc' = "raised"
    /\ exc' = e

\* ------------------------------------------------------ the run
\* get_posts / get_user_posts: self.get(url), then _scroll_and_scrape(limit)
\* with user_posts = [] and post_ids = set().
Navigate ==
    /\ pc = "nav"
    /\ \/ windowOpen /\ pc' = "loop" /\ exc' = exc
       \/ windowOpen /\ Raise("WebDriverException")
       \/ ~windowOpen /\ Raise("NoSuchWindowException")
    /\ UNCHANGED <<scope, driverOpen, prog, env, scrollGrew, passGhost, last>>
    /\ UNCHANGED aux

\* Mutant of LoopTest: `<=` for `<`, one more pass than asked for.
LoopTestOffByOne ==
    /\ pc = "loop"
    /\ pc' = IF Len(user_posts) <= limit THEN "scroll" ELSE "done"
    /\ UNCHANGED <<scope, driverOpen, exc, prog, env, scrollGrew, passGhost, last>>
    /\ UNCHANGED aux

\* while len(user_posts) < limit: ... ; return user_posts
LoopTest ==
    /\ pc = "loop"
    /\ pc' = IF Len(user_posts) < limit THEN "scroll" ELSE "done"
    /\ UNCHANGED <<scope, driverOpen, exc, prog, env, scrollGrew, passGhost, last>>
    /\ UNCHANGED aux

\* _scroll_to_page_bottom: read the extent, scroll, wait for growth; every
\* exception is caught and logged here.
ScrollToPageBottom ==
    /\ pc = "scroll"
    /\ \/ /\ ~windowOpen                 \* NoSuchWindowException, caught
          /\ scrollGrew' = "failed"
          /\ hi' = hi
       \/ /\ windowOpen                  \* a script call fails, caught
          /\ scrollGrew' = "failed"
          /\ hi' = hi
       \/ /\ windowOpen                  \* the wait elapses without growth
          /\ scrollGrew' = WaitForScroll(hi, hi)
          /\ hi' = hi
       \/ /\ windowOpen                  \* new content loads
          /\ \E h \in (hi + 1)..NPosts :
                /\ hi' = h
                /\ scrollGrew' = WaitForScroll(hi, h)
    /\ pc' = "locate"
    /\ UNCHANGED <<scope, driverOpen, exc, prog, lo, gen, windowOpen, closedAt,
                   passGhost, last>>
    /\ UNCHANGED aux

NextPhase(ph) ==
    CASE ph = "none" -> "first"
      [] ph = "first" -> "second"
      [] OTHER -> "later"

\* post_elements = self.wait.until(presence_of_all_elements_located(POST_XPATH))
\* and the start of `for index, post_element in enumerate(post_elements)`.
Locate ==
    /\ pc = "locate"
    /\ \/ /\ ~windowOpen
          /\ Raise("NoSuchWindowException")
          /\ UNCHANGED <<prog, passGhost>>
       \/ /\ windowOpen
          /\ PresenceOfAllTimesOut(Rendered)
          /\ Raise("TimeoutException")
          /\ UNCHANGED <<prog, passGhost>>
       \/ /\ windowOpen
          /\ ~PresenceOfAllTimesOut(Rendered)
          /\ post_elements' = Rendered
          /\ iter' = Rendered
          /\ index' = 1
          /\ pc' = "read"
          /\ exc' = exc
          /\ phase' = NextPhase(phase)
          /\ prevParsed' = passParsed
          /\ prevAdded' = passAdded
          /\ passParsed' = {}
          /\ passAdded' = 0
          /\ UNCHANGED <<limit, user_posts, post_ids>>
    /\ UNCHANGED <<scope, driverOpen, env, scrollGrew, last>>
    /\ UNCHANGED aux

\* post_soup = BeautifulSoup(post_html); x_post = XPost(soup=post_soup);
\* if x_post.id not in post_ids: add, append, break at the limit.
Collect(p, via) ==
    LET x == XPost(p, DriverUrl(p))
        id == XPostId(x)
        kept == ~Seen(id, post_ids)
        posts == IF kept THEN Append(user_posts, GetAttributes(x)) ELSE user_posts
    IN  /\ post_ids' = IF kept THEN post_ids \cup {id} ELSE post_ids
        /\ user_posts' = posts
        /\ IF kept /\ Len(posts) >= limit
             THEN pc' = "loop" /\ index' = index
             ELSE pc' = "read" /\ index' = index + 1
        /\ exc' = exc
        /\ last' = <<[post |-> p, id |-> id, kept |-> kept, via |-> via]>>
        /\ passParsed' = passParsed \cup {p}
        /\ passAdded' = IF kept THEN passAdded + 1 ELSE passAdded
        /\ UNCHANGED <<phase, prevParsed, prevAdded>>

\* One iteration of the for loop: post_element.get_attribute("outerHTML").
Read ==
    /\ pc = "read"
    /\ \/ /\ index > Len(iter)           \* the for loop is exhausted
          /\ pc' = "loop"
          /\ exc' = exc
          /\ UNCHANGED <<prog, passGhost, last>>
       \/ /\ index <= Len(iter)
          /\ ~windowOpen
          /\ Raise("NoSuchWindowException")
          /\ UNCHANGED <<prog, passGhost, last>>
       \/ /\ index <= Len(iter)
          /\ windowOpen
          /\ IsStale(iter[index])        \* except StaleElementReferenceException
          /\ pc' = "refetch"
          /\ exc' = exc
          /\ UNCHANGED <<prog, passGhost, last>>
       \/ /\ index <= Len(iter)
          /\ windowOpen
          /\ ~IsStale(iter[index])
          /\ Collect(iter[index].p, "read")
          /\ UNCHANGED <<limit, post_elements, iter>>
    /\ UNCHANGED <<scope, driverOpen, env, scrollGrew>>
    /\ UNCHANGED aux

\* In the except block: post_elements = self.wait.until(...);
\* post_element = post_elements[index].
Refetch ==
    /\ pc = "refetch"
    /\ \/ /\ ~windowOpen
          /\ Raise("NoSuchWindowException")
          /\ UNCHANGED post_elements
       \/ /\ windowOpen
          /\ PresenceOfAllTimesOut(Rendered)
          /\ Raise("TimeoutException")
          /\ UNCHANGED post_elements
       \/ /\ windowOpen
          /\ ~PresenceOfAllTimesOut(Rendered)
          /\ index > Len(Rendered)
          /\ Raise("IndexError")
          /\ post_elements' = Rendered
       \/ /\ windowOpen
          /\ ~PresenceOfAllTimesOut(Rendered)
          /\ index <= Len(Rendered)
          /\ pc' = "retry"
          /\ exc' = exc
          /\ post_elements' = Rendered
    /\ UNCHANGED <<scope, driverOpen, limit, user_posts, post_ids, iter, index,
                   env, scrollGrew, passGhost, last>>
    /\ UNCHANGED aux

\* Still in the except block: post_html = post_element.get_attribute("outerHTML"),
\* not guarded by a second try.
Retry ==
    /\ pc = "retry"
    /\ \/ /\ ~windowOpen
          /\ Raise("NoSuchWindowException")
          /\ UNCHANGED <<prog, passGhost, last>>
       \/ /\ windowOpen
          /\ IsStale(Reindex(post_elements, index))
          /\ Raise("StaleElementReferenceException")
          /\ UNCHANGED <<prog, passGhost, last>>
       \/ /\ windowOpen
          /\ ~IsStale(Reindex(post_elements, index))
          /\ Collect(Reindex(post_elements, index).p, "retry")
          /\ UNCHANGED <<limit, post_elements, iter>>
    /\ UNCHANGED <<scope, driverOpen, env, scrollGrew>>
    /\ UNCHANGED aux

\* Mutant of ExitScope: the driver is quit on the normal path only.
ExitScopeLeak ==
    /\ scope = "inside"
    /\ pc \in {"done", "raised"}
    /\ scope' = "left"
    /\ driverOpen' = (pc = "raised")
    /\ UNCHANGED <<pc, exc, prog, env, scrollGrew, passGhost, last>>
    /\ UNCHANGED aux

\* Leaving the with-block, by return or by exception: __exit__ calls
\* self.driver.quit() and returns None, so an exception goes on to the caller.
ExitScope ==
    /\ scope = "inside"
    /\ pc \in {"done", "raised"}
    /\ scope' = "left"
    /\ driverOpen' = FALSE
    /\ UNCHANGED <<pc, exc, prog, env, scrollGrew, passGhost, last>>
    /\ UNCHANGED aux

\* ------------------------------------------------- the environment
\* The page re-renders one rendered post: handles to it go stale.
Rerender ==
    /\ pc \in Running
    /\ windowOpen
    /\ \E p \in lo..hi :
          /\ gen[p] < MaxGen
          /\ gen' = [gen EXCEPT ![p] = @ + 1]
    /\ UNCHANGED <<pc, scope, driverOpen, exc, prog, lo, hi, windowOpen, closedAt,
                   scrollGrew, passGhost, last>>
    /\ UNCHANGED aux

\* The virtualised feed drops its topmost rendered post from the document.
DropTop ==
    /\ pc \in Running
    /\ windowOpen
    /\ lo <= hi
    /\ lo' = lo + 1
    /\ UNCHANGED <<pc, scope, driverOpen, exc, prog, hi, gen, windowOpen, closedAt,
                   scrollGrew, passGhost, last>>
    /\ UNCHANGED aux

\* The browser window is closed from outside.
CloseWindow ==
    /\ pc \in Running
    /\ windowOpen
    /\ windowOpen' = FALSE
    /\ closedAt' = IF pc = "nav" THEN closedAt ELSE Len(user_posts)
    /\ UNCHANGED <<pc, scope, driverOpen, exc, prog, lo, hi, gen,
                   scrollGrew, passGhost, last>>
    /\ UNCHANGED aux

Driver ==
    \/ Navigate
    \/ LoopTest
    \/ ScrollToPageBottom
    \/ Locate
    \/ Read
    \/ Refetch
    \/ Retry
    \/ ExitScope

Next ==
    \/ Driver
    \/ Rerender
    \/ DropTop
    \/ CloseWindow

Spec == Init /\ [][Next]_vars

\* The run is one sequential control flow: its next step is always taken.
FairSpec == Spec /\ WF_vars(Driver)

TypeOK ==
    /\ pc \in Running \cup {"done", "raised"}
    /\ scope \in {"inside", "left"}
    /\ limit \in Limits
    /\ Len(user_posts) <= NPosts
    /\ index \in 1..(NPosts + 1)
    /\ lo \in 1..(NPosts + 1)
    /\ hi \in 0..NPosts

\* ------------------------------------------------------------ claims
Ended == pc \in {"done", "raised"}

\* The identifier the post's canonical URL gives: its last path segment.
UrlId(p) == PostUrl(p)[Len(PostUrl(p))]

IsPrefix(a, b) == Len(a) <= Len(b) /\ \A i \in 1..Len(a) : a[i] = b[i]

\* C1: when the second pass of a run parses every post of the first pass
\* again plus exactly one post with a new identifier, and the limit leaves
\* room for all of them, the second pass appended exactly one record and the
\* first pass appended one record per distinct identifier it parsed.
C1_DedupNetNew ==
    ( /\ phase = "second"
      /\ pc = "loop"
      /\ prevParsed # {}
      /\ prevParsed \subseteq passParsed
      /\ Cardinality(passParsed \ prevParsed) = 1
      /\ limit > Cardinality(prevParsed) )
    => ( /\ passAdded = 1
         /\ prevAdded = Cardinality({UrlId(p) : p \in prevParsed}) )

\* C2: _scroll_and_scrape eventually ends instead of looping forever; in
\* particular every run whose page never holds as many posts as the limit
\* asks for, and whose scroll calls never fail, eventually ends (by
\* returning the fewer records, or by raising).
C2_EventuallyEnds == <>(Ended \/ hi >= limit \/ scrollGrew = "failed")

C5_ExhaustedRetrySkips ==
    [][ ( /\ pc' # pc
          /\ windowOpen
          /\ \/ pc = "retry" /\ IsStale(post_elements[index])
             \/ pc = "refetch" /\ Rendered # << >> /\ index > Len(Rendered) )
        => ( /\ pc' = "read"
             /\ index' = index + 1
             /\ user_posts' = user_posts ) ]_vars

\* C6: when no post element is rendered within the wait after a scroll
\* attempt, the run ends with a TimeoutException, and a run that has raised
\* stays raised with that exception: it reaches the caller, no list does.
C6_NoPostsTimeoutFatal ==
    [][ /\ ( ( /\ pc = "locate"
               /\ pc' # pc
               /\ windowOpen
               /\ Rendered = << >> )
             => (pc' = "raised" /\ exc' = "TimeoutException") )
        /\ (pc = "raised" => pc' = "raised" /\ exc' = exc) ]_vars

\* C6 witness: the run ended with the timeout of its first lookup and the
\* exception left the scope.
C6_Witness ==
    /\ pc = "raised"
    /\ exc = "TimeoutException"
    /\ phase = "none"
    /\ scope = "left"

\* C7: a run whose browser window was closed while k records were held ends
\* by returning exactly those k records, never by raising.
C7_WindowClosedReturnsPartial ==
    (closedAt >= 0 /\ Ended) => (pc = "done" /\ Len(user_posts) = closedAt)

\* C8: once the scope of the run is left, by return or by exception, the
\* driver has been quit.
C8_SessionReleased == scope = "left" => ~driverOpen

\* C8 witness: the scope was left by an exception.
C8_Witness ==
    /\ scope = "left"
    /\ pc = "raised"
    /\ exc # "none"

\* C9: every accumulated record carries the identifier its post's canonical
\* URL gives (the URL's last path segment).
C9_IdFromUrl ==
    \A i \in 1..Len(user_posts) :
        user_posts[i].post_id = UrlId(user_posts[i].soup)

\* C10: a post parsed with a null identifier is discarded only when that
\* same post is already accumulated, never because of another post.
C10_NullIdNotDeduplicated ==
    (last # << >> /\ last[1].id = NoneId /\ ~last[1].kept)
    => \E i \in 1..Len(user_posts) : user_posts[i].soup = last[1].post

\* ================================================================ strings
\* A string is a sequence of symbols. A symbol is one character, except that
\* the words float() reads as a whole ("inf", "nan") and label words
\* ("Followers", "Joined ", ...) are one symbol each.
MaxLen == 4      \* longest string given to convert_string_to_int

Digits == {"0", "1", "2", "3", "4", "5", "6", "7", "8", "9"}

DigitVal(c) ==
    CASE c = "0" -> 0 [] c = "1" -> 1 [] c = "2" -> 2 [] c = "3" -> 3
      [] c = "4" -> 4 [] c = "5" -> 5 [] c = "6" -> 6 [] c = "7" -> 7
      [] c = "8" -> 8 [] c = "9" -> 9

\* The symbols the checked strings are made of.
StrChars == {"0", "1", "2", ".", ",", "K", "M", "-", " ", "x", "inf", "nan"}

StringsUpTo(chars, n) == UNION {[1..k -> chars] : k \in 0..n}

\* c in s
Contains(s, c) == \E i \in 1..Len(s) : s[i] = c

\* s.replace(c, "")
Remove(s, c) == SelectSeq(s, LAMBDA x : x # c)

\* s.strip(): leading and trailing whitespace removed.
RECURSIVE LStrip(_)
LStrip(s) == IF s # << >> /\ s[1] = " " THEN LStrip(Tail(s)) ELSE s
RECURSIVE RStrip(_)
RStrip(s) ==
    IF s # << >> /\ s[Len(s)] = " " THEN RStrip(SubSeq(s, 1, Len(s) - 1)) ELSE s
Strip(s) == RStrip(LStrip(s))

\* s.split()[0]: the first whitespace-delimited token (s holds one).
RECURSIVE UpToSpace(_)
UpToSpace(s) ==
    IF s = << >> \/ s[1] = " " THEN << >> ELSE <<s[1]>> \o UpToSpace(Tail(s))
FirstToken(s) == UpToSpace(LStrip(s))

\* The value of a sequence of digits, 0 for none.
RECURSIVE ToNat(_)
ToNat(ds) ==
    IF ds = << >> THEN 0
    ELSE 10 * ToNat(SubSeq(ds, 1, Len(ds) - 1)) + DigitVal(ds[Len(ds)])

\* float(s): what the text is read as. Surrounding whitespace and one sign
\* are allowed; the body is inf, nan, or digits with at most one point.
Unsigned(t) == IF t # << >> /\ t[1] \in {"-", "+"} THEN Tail(t) ELSE t
IsNegative(t) == t # << >> /\ t[1] = "-"
IsDecimal(u) ==
    /\ \A i \in 1..Len(u) : u[i] \in Digits \cup {"."}
    /\ Cardinality({i \in 1..Len(u) : u[i] = "."}) <= 1
    /\ \E i \in 1..Len(u) : u[i] \in Digits
FloatKind(s) ==
    LET u == Unsigned(Strip(s))
    IN  CASE u = <<"inf">> -> "inf"
          [] u = <<"nan">> -> "nan"
          [] IsDecimal(u) -> "finite"
          [] OTHER -> "invalid"

\* int(float(s) * 10^k) for a finite float: truncation toward zero.
PointAt(u) == IF Contains(u, ".") THEN CHOOSE i \in 1..Len(u) : u[i] = "." ELSE Len(u) + 1
TruncScaled(s, k) ==
    LET t == Strip(s)
        u == Unsigned(t)
        whole == SubSeq(u, 1, PointAt(u) - 1)
        frac == SubSeq(u, PointAt(u) + 1, Len(u))
        fracK == [i \in 1..k |-> IF i <= Len(frac) THEN frac[i] ELSE "0"]
        n == ToNat(whole \o fracK)
    IN  IF IsNegative(t) THEN 0 - n ELSE n

\* int(float(s) * 10^k) inside `try ... except ValueError: return 0`:
\* float() of a malformed text and int() of nan raise ValueError, int() of an
\* infinity raises OverflowError, which nothing catches.
IntOfFloat(s, k) ==
    CASE FloatKind(s) = "finite" -> [exc |-> "none", val |-> TruncScaled(s, k)]
      [] FloatKind(s) = "inf" -> [exc |-> "OverflowError", val |-> 0]
      [] OTHER -> [exc |-> "none", val |-> 0]

\* convert_string_to_int
ConvertStringToInt(string) ==
    LET s == Remove(string, ",")
    IN  IF Contains(s, "K") THEN IntOfFloat(Remove(s, "K"), 3)
        ELSE IF Contains(s, "M") THEN IntOfFloat(Remove(s, "M"), 6)
        ELSE IntOfFloat(s, 0)

\* ------------------------------------------------------------------------
\* The scroll-and-collect run is not started in the parsers' specifications.
DriverIdle ==
    /\ pc = "idle"
    /\ scope = "inside"
    /\ driverOpen = TRUE
    /\ exc = "none"
    /\ limit = 0
    /\ user_posts = << >>
    /\ post_ids = {}
    /\ post_elements = << >>
    /\ iter = << >>
    /\ index = 1
    /\ lo = 1
    /\ hi = 0
    /\ gen = [p \in Posts |-> 0]
    /\ windowOpen = TRUE
    /\ scrollGrew = "none"
    /\ phase = "none"
    /\ passParsed = {}
    /\ prevParsed = {}
    /\ passAdded = 0
    /\ prevAdded = 0
    /\ last = << >>
    /\ closedAt = 0 - 1

\* ------------------------------------------------- convert_string_to_int
ParseInit ==
    /\ DriverIdle
    /\ inp \in StringsUpTo(StrChars, MaxLen)
    /\ out = << >>
    /\ user = << >>
    /\ log = << >>

\* One call convert_string_to_int(inp).
ParseCall ==
    /\ out = << >>
    /\ out' = <<ConvertStringToInt(inp)>>
    /\ UNCHANGED <<dvars, inp, user, log>>

ParseNext == ParseCall

ParseSpec == ParseInit /\ [][ParseNext]_vars

\* A number with an optional K or M suffix: digits, with thousands
\* separators and at most one decimal point, then nothing, K or M.
IsCount(s) ==
    LET body == IF s # << >> /\ s[Len(s)] \in {"K", "M"}
                  THEN SubSeq(s, 1, Len(s) - 1) ELSE s
    IN  /\ body # << >>
        /\ body[1] \in Digits
        /\ \A i \in 1..Len(body) : body[i] \in Digits \cup {".", ","}
        /\ Cardinality({i \in 1..Len(body) : body[i] = "."}) <= 1

\* C13: convert_string_to_int never raises and never returns a negative
\* number; it gives 1200 for "1.2K", 3000000 for "3M", 1234 for "1,234", and
\* 0 for the empty string and for every text that is not a number with an
\* optional K or M suffix (signed numbers, "inf", "nan" included).
C13_ParseCountTotal ==
    /\ ConvertStringToInt(<<"1", ".", "2", "K">>) = [exc |-> "none", val |-> 1200]
    /\ ConvertStringToInt(<<"3", "M">>) = [exc |-> "none", val |-> 3000000]
    /\ ConvertStringToInt(<<"1", ",", "2", "3", "4">>) = [exc |-> "none", val |-> 1234]
    /\ ConvertStringToInt(<< >>) = [exc |-> "none", val |-> 0]
    /\ out # << >> =>
          /\ out[1].exc = "none"
          /\ out[1].val >= 0
          /\ (~IsCount(inp) => out[1].val = 0)

\* ------------------------------------------------------- ImpressionFinder
\* soup.select_one(selector): a Tag with its text, or None.
NoElement == [present |-> FALSE, text |-> << >>]
Tag(text) == [present |-> TRUE, text |-> text]

\* IMPRESSION_HTML_TO_NAME, in the order the dictionary is iterated.
ImpressionHtml == <<"view", "like", "retweet", "bookmark", "reply">>
ImpressionName(h) ==
    CASE h = "view" -> "views"
      [] h = "like" -> "likes"
      [] h = "retweet" -> "reposts"
      [] h = "bookmark" -> "bookmarks"
      [] h = "reply" -> "replies"
ImpressionNames == {ImpressionName(ImpressionHtml[i]) : i \in 1..Len(ImpressionHtml)}

\* The markers get_impressions selects: div[data-testid=<metric>] for each
\* metric, and the a[href$="/analytics"] link.
Analytics == "analytics"
Markers == {ImpressionHtml[i] : i \in 1..Len(ImpressionHtml)} \cup {Analytics}

\* Texts a marker may carry.
MarkerTexts ==
    { << >>, <<"0">>, <<"1", "2">>, <<"2", "K", " ", "x">>, <<"x">>,
      <<"-", "1">>, <<"inf">> }
Elements == {NoElement} \cup {Tag(t) : t \in MarkerTexts}
Markups == [Markers -> Elements]

\* ImpressionFinder._get_metric: a Tag is always true, so the text decides.
GetMetric(markup, metric) ==
    LET element == markup[metric]
    IN  IF element.present /\ Strip(element.text) # << >>
        THEN FirstToken(element.text)
        ELSE <<"0">>

\* ImpressionFinder.get_metric_value
GetMetricValue(markup, metric_html) == ConvertStringToInt(GetMetric(markup, metric_html))

\* ImpressionFinder.get_views: the whole text of the link is converted.
GetViews(markup) ==
    LET views_element == markup[Analytics]
    IN  IF views_element.present THEN ConvertStringToInt(views_element.text)
        ELSE [exc |-> "none", val |-> 0]

\* The first exception of the calls made in order, "none" if none raises.
RECURSIVE FirstExc(_)
FirstExc(rs) ==
    IF rs = << >> THEN "none"
    ELSE IF rs[1].exc # "none" THEN rs[1].exc ELSE FirstExc(Tail(rs))

\* ImpressionFinder.get_impressions
GetImpressions(markup) ==
    LET vals == [i \in 1..Len(ImpressionHtml) |-> GetMetricValue(markup, ImpressionHtml[i])]
        metrics == [n \in ImpressionNames |->
                      LET i == CHOOSE j \in 1..Len(ImpressionHtml) : ImpressionName(ImpressionHtml[j]) = n
                      IN  vals[i].val]
        views == IF metrics["views"] = 0 THEN GetViews(markup)
                 ELSE [exc |-> "none", val |-> metrics["views"]]
    IN  IF FirstExc(vals) # "none" THEN [exc |-> FirstExc(vals), val |-> << >>]
        ELSE IF views.exc # "none" THEN [exc |-> views.exc, val |-> << >>]
        ELSE [exc |-> "none", val |-> [metrics EXCEPT !["views"] = views.val]]

ImprInit ==
    /\ DriverIdle
    /\ inp \in Markups
    /\ out = << >>
    /\ user = << >>
    /\ log = << >>

\* One call ImpressionFinder(soup).get_impressions() on the markup inp.
ImprCall ==
    /\ out = << >>
    /\ out' = <<GetImpressions(inp)>>
    /\ UNCHANGED <<dvars, inp, user, log>>

ImprNext == ImprCall

ImprSpec == ImprInit /\ [][ImprNext]_vars

\* The count a marker shows as its first token: 0 if the token is no count.
ShownCount(element) ==
    IF element.present /\ IsCount(FirstToken(element.text))
    THEN ConvertStringToInt(FirstToken(element.text)).val
    ELSE 0

\* C11: when the primary views marker is absent or yields 0 and the
\* analytics link carries a non-zero count as its first token,
\* get_impressions()["views"] is that count.
C11_ViewsFallback ==
    (/\ out # << >>
     /\ out[1].exc = "none"
     /\ GetMetricValue(inp, "view") = [exc |-> "none", val |-> 0]
     /\ ShownCount(inp[Analytics]) # 0)
    => out[1].val["views"] = ShownCount(inp[Analytics])

\* C12: get_impressions never raises; it returns exactly the five counters,
\* each >= 0, and a counter whose marker is absent, empty or shows no count
\* is 0.
C12_ImpressionsTotal ==
    out # << >> =>
       /\ out[1].exc = "none"
       /\ DOMAIN out[1].val = ImpressionNames
       /\ \A n \in ImpressionNames : out[1].val[n] \in Nat
       /\ \A i \in 2..Len(ImpressionHtml) :
             ShownCount(inp[ImpressionHtml[i]]) = 0
                => out[1].val[ImpressionName(ImpressionHtml[i])] = 0

\* --------------------------------------------------------- XPost fields
MaxAuthor == 5     \* longest text of the author marker

\* An optional value: << >> is None, <<v>> is the value v.
Null == << >>
Some(v) == <<v>>

\* s.split(sep): the pieces of s between the separators, at least one.
RECURSIVE Split(_, _)
Split(s, sep) ==
    IF ~Contains(s, sep) THEN <<s>>
    ELSE LET i == CHOOSE j \in 1..Len(s) :
                     s[j] = sep /\ \A k \in 1..(j - 1) : s[k] # sep
         IN  <<SubSeq(s, 1, i - 1)>> \o Split(SubSeq(s, i + 1, Len(s)), sep)

\* Texts of the div[data-testid="User-Name"] marker.
AuthorChars == {"a", "b", "@", "·"}
AuthorTexts == StringsUpTo(AuthorChars, MaxAuthor)

\* The datetime attribute of the <time> marker. "D" stands for the text of
\* an ISO-8601 instant without zone ("2024-01-01T00:00:00.000"), "Z" for the
\* zone letter, "x" for a character no timestamp has.
Instant == "D"
DateAttrs == { << >>, <<Instant, "Z">>, <<Instant>>, <<"x", "Z">> }
\* The <time> marker: absent, or a Tag whose datetime attribute may be absent.
TimeElements ==
    {NoElement} \cup {[present |-> TRUE, datetime |-> a] : a \in {Null} \cup {Some(d) : d \in DateAttrs}}

\* datetime.fromisoformat(s).replace(tzinfo=timezone.utc)
FromIsoFormatUtc(s) ==
    IF s = <<Instant>> THEN [exc |-> "none", val |-> Some([instant |-> Instant, tzinfo |-> "UTC"])]
    ELSE [exc |-> "ValueError", val |-> Null]

\* XPost.date
Date(soup) ==
    LET date_element == soup.time
    IN  IF ~date_element.present THEN [exc |-> "none", val |-> Null]
        ELSE LET date == date_element.datetime
             IN  IF date # Null /\ date[1] # << >>
                 THEN FromIsoFormatUtc(SubSeq(date[1], 1, Len(date[1]) - 1))
                 ELSE [exc |-> "none", val |-> Null]

\* XPost.author_username
AuthorUsername(soup) ==
    LET username_element == soup.author
        parts == Split(username_element.text, "@")
    IN  IF ~username_element.present THEN [exc |-> "none", val |-> Null]
        ELSE IF Len(parts) < 2 THEN [exc |-> "IndexError", val |-> Null]
        ELSE IF Contains(username_element.text, "·")
             THEN [exc |-> "none", val |-> Some(Split(parts[2], "·")[1])]
             ELSE [exc |-> "none", val |-> Some(parts[2])]

\* XPost.author_name
AuthorName(soup) ==
    LET username_element == soup.author
    IN  IF ~username_element.present THEN [exc |-> "none", val |-> Null]
        ELSE [exc |-> "none", val |-> Some(Split(username_element.text, "@")[1])]

\* XPost.is_repost, XPost.video_in_post: bool(select_one(...))
IsRepost(soup) == soup.repost
VideoInPost(soup) == soup.video

\* XPost.get_impressions
XPostGetImpressions(soup) == GetImpressions(soup.metrics)

\* XPost.get_attributes: PostData(...) with its arguments evaluated in the
\* order written; the first exception propagates. The text and post_media
\* arguments raise nothing and are left out of the record.
PostData(x) ==
    LET soup == x.soup
        date == Date(soup)
        author_username == AuthorUsername(soup)
        author_name == AuthorName(soup)
        impressions == XPostGetImpressions(soup)
        raised == FirstExc(<<date, author_username, author_name, impressions>>)
    IN  IF raised # "none" THEN [exc |-> raised, val |-> Null]
        ELSE [exc |-> "none",
              val |-> Some([post_id |-> XPostId(x),
                            url |-> XPostUrl(x),
                            date |-> date.val,
                            author_username |-> author_username.val,
                            author_name |-> author_name.val,
                            is_repost |-> IsRepost(soup),
                            video_in_post |-> VideoInPost(soup),
                            impressions |-> impressions.val])]

\* Markup of one post: the markers the accessors select. Of the metric
\* markers the post carries the likes one: absent, a count with its label, or
\* a text float() reads as infinite.
LikeElements == {NoElement, Tag(<<"2", "K", " ", "x">>), Tag(<<"inf">>)}
LikeOnly(e) == [m \in Markers |-> IF m = "like" THEN e ELSE NoElement]
PostSoups ==
    [author : {NoElement} \cup {Tag(t) : t \in AuthorTexts},
     time : TimeElements,
     metrics : {LikeOnly(e) : e \in LikeElements},
     repost : BOOLEAN,
     video : BOOLEAN]

PostInit ==
    /\ DriverIdle
    /\ inp \in {XPost(soup, url) : soup \in PostSoups, url \in {NoUrl, PostUrl(1)}}
    /\ out = << >>
    /\ user = << >>
    /\ log = << >>

\* One call inp.get_attributes().
PostCall ==
    /\ out = << >>
    /\ out' = <<PostData(inp)>>
    /\ UNCHANGED <<dvars, inp, user, log>>

PostNext == PostCall

PostSpec == PostInit /\ [][PostNext]_vars

\* The ways to read an author text as N@H or N@H·X: N a name, not empty,
\* and H a handle, a text, not empty, with neither "@" nor "·".
AuthorReadings(text) ==
    { [N |-> SubSeq(text, 1, i - 1),
       H |-> Split(SubSeq(text, i + 1, Len(text)), "·")[1]] :
         i \in {j \in 2..Len(text) :
                   /\ text[j] = "@"
                   /\ Split(SubSeq(text, j + 1, Len(text)), "·")[1] # << >>
                   /\ ~Contains(Split(SubSeq(text, j + 1, Len(text)), "·")[1], "@")} }

\* C14: for a post whose author marker reads N@H or N@H·X, whose time
\* marker's datetime is an ISO instant followed by Z and whose likes marker
\* shows a count and a label, get_attributes yields author_name = N,
\* author_username = H, date = the instant in UTC and impressions.likes = the
\* count.
C14_PostEndToEnd ==
    (/\ out # << >>
     /\ inp.soup.author.present
     /\ inp.soup.time.present
     /\ inp.soup.time.datetime = Some(<<Instant, "Z">>)
     /\ ShownCount(inp.soup.metrics["like"]) # 0)
    => \A r \in AuthorReadings(inp.soup.author.text) :
          /\ out[1].exc = "none"
          /\ out[1].val[1].author_name = Some(r.N)
          /\ out[1].val[1].author_username = Some(r.H)
          /\ out[1].val[1].date = Some([instant |-> Instant, tzinfo |-> "UTC"])
          /\ out[1].val[1].impressions["likes"] = ShownCount(inp.soup.metrics["like"])

\* C15: get_attributes returns a record for every post markup (whose metric
\* markers convert); an author marker that is absent or has no "@" gives
\* null author fields and a time marker that is absent, has no datetime or
\* no ISO timestamp gives a null date, instead of raising.
C15_FieldFailureIsNull ==
    (/\ out # << >>
     /\ XPostGetImpressions(inp.soup).exc = "none")
    => /\ out[1].exc = "none"
       /\ (~inp.soup.author.present \/ ~Contains(inp.soup.author.text, "@"))
             => /\ out[1].val[1].author_name = Null
                /\ out[1].val[1].author_username = Null
       /\ (~inp.soup.time.present \/ inp.soup.time.datetime # Some(<<Instant, "Z">>))
             => out[1].val[1].date = Null

\* ================================================================= XUser
MaxLookups == 2    \* lookups of the name/handle field over one XUser's life
Retries == 3       \* _handle_stale_element(by, value, retries=3)

\* str.splitlines(): the lines of s; a final line break opens no line.
SplitLines(s) ==
    LET pieces == Split(s, "\n")
    IN  IF pieces[Len(pieces)] = << >> THEN SubSeq(pieces, 1, Len(pieces) - 1)
        ELSE pieces

\* What one element lookup meets on the page.
Found(text) == [kind |-> "found", text |-> text]
NotFound == [kind |-> "NoSuchElementException", text |-> << >>]
TimedOut == [kind |-> "TimeoutException", text |-> << >>]
NoLookup == [kind |-> "none", text |-> << >>]

\* Texts of the UserName field, as get_element_text returns them: name and
\* handle on two lines, and the shapes with fewer or more lines.
NameTexts ==
    { <<"n", "\n", "@", "h">>, <<"n">>, <<"n", "\n", "@", "h", "\n", "x">>,
      <<"\n", "@", "h">>, << >> }
CompositeOutcomes == {Found(t) : t \in NameTexts} \cup {NotFound, TimedOut}

\* The field accessors of XUser, and the ones that read a marker of their
\* own (name, username and url read the UserName field only).
OwnMarkerOps ==
    {"followers", "following", "subscriptions", "bio", "join_date",
     "profession", "location"}
Accessors == {"name", "username", "url"} \cup OwnMarkerOps
CountOps == {"followers", "following", "subscriptions"}

\* The units word an accessor strips from its label text.
Label(op) ==
    CASE op = "followers" -> "Followers"
      [] op = "following" -> "Following"
      [] op = "subscriptions" -> "Subscriptions"
      [] op = "join_date" -> "Joined "

\* "B" stands for a text strptime reads with "%B %Y" ("March 2020").
MonthYear == "B"

\* Texts an accessor's own marker may show.
OwnTexts(op) ==
    CASE op \in CountOps -> { <<"1", "2", " ", Label(op)>>, <<"x">>, << >> }
      [] op = "join_date" -> { <<Label(op), MonthYear>>, <<"x">> }
      [] OTHER -> { <<"x">>, << >> }
OwnOutcomes(op) ==
    IF op \in OwnMarkerOps THEN {Found(t) : t \in OwnTexts(op)} \cup {NotFound, TimedOut}
    ELSE {NoLookup}

\* XUser._get_profile_property when the lookup meets `outcome`: find_element
\* on a None region raises AttributeError before any lookup is issued.
GetProfileProperty(u, outcome) ==
    IF u.profile_element = Null
    THEN [exc |-> "AttributeError", val |-> Null, issued |-> FALSE]
    ELSE IF outcome.kind = "found"
    THEN [exc |-> "none", val |-> Some(outcome.text), issued |-> TRUE]
    ELSE [exc |-> "none", val |-> Null, issued |-> TRUE]

\* XUser._fetch_name_and_username: the object afterwards, and the exception.
FetchNameAndUsername(u, outcome) ==
    LET name_username == GetProfileProperty(u, outcome)
        lines == SplitLines(name_username.val[1])
    IN  IF name_username.exc # "none"
        THEN [exc |-> name_username.exc, user |-> u, issued |-> FALSE]
        ELSE IF name_username.val = Null \/ name_username.val[1] = << >>
        THEN [exc |-> "none", user |-> u, issued |-> TRUE]
        ELSE IF Len(lines) # 2
        THEN [exc |-> "ValueError", user |-> u, issued |-> TRUE]
        ELSE [exc |-> "none", issued |-> TRUE,
              user |-> [u EXCEPT !._name = Some(lines[1]),
                                 !._username = Some(Remove(lines[2], "@"))]]

\* XUser.name
Name(u, outcome) ==
    IF u._name # Null
    THEN [exc |-> "none", val |-> u._name, user |-> u, issued |-> FALSE]
    ELSE LET f == FetchNameAndUsername(u, outcome)
         IN  [exc |-> f.exc, val |-> IF f.exc = "none" THEN f.user._name ELSE Null,
              user |-> f.user, issued |-> f.issued]

\* XUser.username
Username(u, outcome) ==
    IF u._username # Null
    THEN [exc |-> "none", val |-> u._username, user |-> u, issued |-> FALSE]
    ELSE LET f == FetchNameAndUsername(u, outcome)
         IN  [exc |-> f.exc, val |-> IF f.exc = "none" THEN f.user._username ELSE Null,
              user |-> f.user, issued |-> f.issued]

\* followers / following / subscriptions: the handle is read first (it is
\* part of the marker's XPath), then the marker; its label text, the units
\* word removed, is converted.
Count(u, op, composite, own) ==
    LET handle == Username(u, composite)
        text == GetProfileProperty(handle.user, own)
        number == ConvertStringToInt(Remove(text.val[1], Label(op)))
    IN  IF handle.exc # "none"
        THEN [exc |-> handle.exc, val |-> Null, user |-> handle.user,
              composite |-> handle.issued, own |-> "none"]
        ELSE IF text.val = Null \/ text.val[1] = << >>
        THEN [exc |-> "none", val |-> Null, user |-> handle.user,
              composite |-> handle.issued, own |-> own.kind]
        ELSE [exc |-> number.exc,
              val |-> IF number.exc = "none" THEN Some(number.val) ELSE Null,
              user |-> handle.user, composite |-> handle.issued, own |-> own.kind]

\* bio / profession / location: the marker's text, or None.
Property(u, own) ==
    LET text == GetProfileProperty(u, own)
    IN  [exc |-> text.exc, val |-> text.val, user |-> u, composite |-> FALSE,
         own |-> IF text.issued THEN own.kind ELSE "none"]

\* datetime.strptime(date_string, "%B %Y")
StrpTime(date_string) ==
    IF date_string = <<MonthYear>> THEN [exc |-> "none", val |-> Some(MonthYear)]
    ELSE [exc |-> "ValueError", val |-> Null]

\* XUser.join_date: .replace("Joined ", "") is called on whatever
\* _get_profile_property returned, None included.
JoinDate(u, own) ==
    LET text == GetProfileProperty(u, own)
        parsed == StrpTime(Remove(text.val[1], Label("join_date")))
    IN  IF text.exc # "none"
        THEN [exc |-> text.exc, val |-> Null, user |-> u, composite |-> FALSE, own |-> "none"]
        ELSE IF text.val = Null
        THEN [exc |-> "AttributeError", val |-> Null, user |-> u,
              composite |-> FALSE, own |-> own.kind]
        ELSE [exc |-> parsed.exc, val |-> parsed.val, user |-> u,
              composite |-> FALSE, own |-> own.kind]

\* XUser.url: f"{X_BASE_URL}/{self.username}/"
UserUrl(u, composite) ==
    LET handle == Username(u, composite)
    IN  [exc |-> handle.exc,
         val |-> IF handle.exc = "none" THEN Some(<<"https://x.com", handle.val>>) ELSE Null,
         user |-> handle.user, composite |-> handle.issued, own |-> "none"]

\* One accessor of XUser, its lookups meeting `composite` (the UserName
\* field) and `own` (the accessor's marker).
Access(u, op, composite, own) ==
    CASE op = "name" ->
           LET r == Name(u, composite)
           IN  [exc |-> r.exc, val |-> r.val, user |-> r.user,
                composite |-> r.issued, own |-> "none"]
      [] op = "username" ->
           LET r == Username(u, composite)
           IN  [exc |-> r.exc, val |-> r.val, user |-> r.user,
                composite |-> r.issued, own |-> "none"]
      [] op = "url" -> UserUrl(u, composite)
      [] op \in CountOps -> Count(u, op, composite, own)
      [] op = "join_date" -> JoinDate(u, own)
      [] OTHER -> Property(u, own)

\* Xtractor._handle_stale_element: what the attempts meet, one after the
\* other; the element if one attempt finds it fresh, and the attempts made.
AttemptOutcomes == {"found", "stale", "NoSuchElementException", "TimeoutException"}
RECURSIVE HandleStaleElement(_, _)
HandleStaleElement(outcomes, attempt) ==
    IF attempt > Retries THEN [element |-> Null, attempts |-> Retries]
    ELSE IF outcomes[attempt] = "found"
    THEN [element |-> Some("region"), attempts |-> attempt]
    ELSE IF outcomes[attempt] = "stale" THEN HandleStaleElement(outcomes, attempt + 1)
    ELSE [element |-> Null, attempts |-> attempt]

\* `not x_username and not profile_element`: an empty handle counts as none.
MissingBothNever(args) == FALSE
MissingBoth(args) ==
    /\ args.x_username \in {Null, Some(<< >>)}
    /\ args.profile_element = Null

\* The arguments XUser is built with.
Args ==
    [x_username : {Null, Some(<< >>), Some(<<"h">>)},
     profile_element : {Null, Some("region")}]

Unbuilt ==
    [state |-> "unbuilt", x_username |-> Null, profile_element |-> Null,
     _name |-> Null, _username |-> Null, busy |-> FALSE, data |-> << >>]

UserInit ==
    /\ DriverIdle
    /\ inp \in Args
    /\ out = << >>
    /\ user = Unbuilt
    /\ log = [navs |-> 0, regionLookups |-> 0, composite |-> << >>]

\* XUser.__init__(scraper, x_username, profile_element)
Construct ==
    /\ user.state = "unbuilt"
    /\ IF MissingBoth(inp)
       THEN /\ user' = [user EXCEPT !.state = "rejected"]
            /\ out' = <<[op |-> "__init__", exc |-> "ValueError", val |-> Null, own |-> "none"]>>
            /\ log' = log
       ELSE \E outcomes \in [1..Retries -> AttemptOutcomes] :
              LET navigates == inp.x_username \notin {Null, Some(<< >>)} /\ inp.profile_element = Null
                  located == HandleStaleElement(outcomes, 1)
                  given == inp.profile_element # Null
              IN  /\ user' = [user EXCEPT !.state = "built",
                                          !.x_username = inp.x_username,
                                          !.profile_element =
                                              IF given THEN inp.profile_element ELSE located.element]
                  /\ out' = <<[op |-> "__init__", exc |-> "none", val |-> Null, own |-> "none"]>>
                  /\ log' = [log EXCEPT !.navs = @ + (IF navigates THEN 1 ELSE 0),
                                        !.regionLookups = @ + (IF given THEN 0 ELSE located.attempts)]
    /\ UNCHANGED <<dvars, inp>>

\* The lookups a call can issue: none on a None region, the UserName field
\* only while the value the accessor reads is not cached, the accessor's own
\* marker if it has one.
CompositeDraws(u, op) ==
    IF /\ u.profile_element # Null
       /\ \/ op = "name" /\ u._name = Null
          \/ op \in {"username", "url"} \cup CountOps /\ u._username = Null
    THEN CompositeOutcomes
    ELSE {NoLookup}
OwnDraws(u, op) ==
    IF u.profile_element # Null THEN OwnOutcomes(op) ELSE {NoLookup}

\* The log after a call whose UserName lookup, if issued, met `composite`:
\* what the lookup met, a field found with no text noted as "empty".
FieldKind(outcome) ==
    IF outcome.kind = "found" /\ outcome.text = << >> THEN "empty" ELSE outcome.kind
Logged(r, composite) ==
    IF r.composite THEN [log EXCEPT !.composite = Append(@, FieldKind(composite))] ELSE log

\* One access to a property of the built XUser.
AccessProperty(op) ==
    /\ user.state = "built"
    /\ ~user.busy
    /\ \E composite \in CompositeDraws(user, op), own \in OwnDraws(user, op) :
          \E r \in {Access(user, op, composite, own)} :
              /\ Len(Logged(r, composite).composite) <= MaxLookups
              /\ user' = r.user
              /\ out' = <<[op |-> op, exc |-> r.exc, val |-> r.val, own |-> r.own]>>
              /\ log' = Logged(r, composite)
    /\ UNCHANGED <<dvars, inp>>

\* XUser.get_data: the properties are read in this order, one per step; an
\* exception of one ends the call, the last completes the record.
GetDataFields ==
    <<"name", "username", "url", "followers", "following", "subscriptions",
      "join_date", "profession", "location">>

\* models.UserData: every field is annotated `T | None` with no default, so
\* each one is required (None is a value, not a default); a keyword missing
\* at construction is a ValidationError.  The accessors' values are of the
\* annotated types, so no other validation error is modelled.
UserDataFields ==
    {"name", "username", "url", "followers", "following", "subscriptions",
     "bio", "join_date", "profession", "location"}
UserData(kwargs) ==
    IF UserDataFields \subseteq DOMAIN kwargs
    THEN [exc |-> "none", val |-> Some(kwargs)]
    ELSE [exc |-> "ValidationError", val |-> Null]

\* The keyword arguments get_data passes, from the accessors' values in the
\* order of evaluation.
Kwargs(data) ==
    [f \in {GetDataFields[i] : i \in 1..Len(GetDataFields)} |->
        data[CHOOSE i \in 1..Len(GetDataFields) : GetDataFields[i] = f]]

GetData ==
    /\ user.state = "built"
    /\ LET op == GetDataFields[Len(user.data) + 1]
       IN  \E composite \in CompositeDraws(user, op), own \in OwnDraws(user, op) :
             \E r \in {Access(user, op, composite, own)} :
             LET data == Append(user.data, r.val)
             IN  /\ Len(Logged(r, composite).composite) <= MaxLookups
                 /\ log' = Logged(r, composite)
                 /\ IF r.exc # "none"
                    THEN /\ user' = [r.user EXCEPT !.busy = FALSE, !.data = << >>]
                         /\ out' = <<[op |-> "get_data", exc |-> r.exc, val |-> Null, own |-> "none"]>>
                    ELSE IF Len(data) = Len(GetDataFields)
                    THEN /\ user' = [r.user EXCEPT !.busy = FALSE, !.data = << >>]
                         /\ \E built \in {UserData(Kwargs(data))} :
                              out' = <<[op |-> "get_data", exc |-> built.exc, val |-> built.val,
                                        own |-> "none", kwargs |-> Kwargs(data)]>>
                    ELSE /\ user' = [r.user EXCEPT !.busy = TRUE, !.data = data]
                         /\ out' = << >>
    /\ UNCHANGED <<dvars, inp>>

UserNext == Construct \/ (\E op \in Accessors : AccessProperty(op)) \/ GetData

UserSpec == UserInit /\ [][UserNext]_vars

\* Neither a handle nor a profile region is given.
NeitherGiven == inp.x_username = Null /\ inp.profile_element = Null

\* C16: constructing XUser with neither a handle nor a profile region raises
\* ValueError at once: no navigation and no element lookup is issued and the
\* session is as before.
C16_NeitherRaisesFirst ==
    [][(user.state = "unbuilt" /\ NeitherGiven)
          => /\ user'.state = "rejected"
             /\ out' = <<[op |-> "__init__", exc |-> "ValueError", val |-> Null, own |-> "none"]>>
             /\ log' = log
             /\ dvars' = dvars]_vars

C16_Witness ==
    /\ NeitherGiven
    /\ user.state = "rejected"
    /\ out # << >>
    /\ out[1].exc = "ValueError"
    /\ log.navs = 0
    /\ log.regionLookups = 0

\* What a lookup of the UserName field met when the field was absent.
AbsentKinds == {"NoSuchElementException", "TimeoutException", "empty"}

\* C17: after any accesses the cached name and the cached handle are both
\* set or both unset; they are unset exactly when the UserName field was
\* absent (at the last lookup, or never looked up); the cached handle does
\* not start with "@".
C17_NameHandleInSync ==
    user.state = "built" =>
       /\ (user._name = Null) <=> (user._username = Null)
       /\ (user._name = Null) <=>
             \/ log.composite = << >>
             \/ log.composite[Len(log.composite)] \in AbsentKinds
       /\ (user._username # Null /\ user._username[1] # << >>)
             => user._username[1][1] # "@"

\* C18: the UserName field is looked up at most once over the life of one
\* XUser, also when the lookups found nothing.
C18_LookedUpOnce ==
    (\A i \in 1..Len(log.composite) : log.composite[i] \in AbsentKinds)
       => Len(log.composite) <= 1

\* C19: an accessor whose own marker is not found, or whose lookup times
\* out, returns None and does not raise.
C19_MissingMarkerIsNull ==
    (/\ out # << >>
     /\ out[1].op \in OwnMarkerOps
     /\ out[1].own \in {"NoSuchElementException", "TimeoutException"})
    => /\ out[1].exc = "none"
       /\ out[1].val = Null

\* C20: an XUser built from a handle whose profile region could not be
\* located has a None region, and every accessor and get_data then return
\* None fields without raising.
C20_UnavailableProfileIsNull ==
    (/\ user.state = "built"
     /\ user.profile_element = Null
     /\ out # << >>
     /\ out[1].op # "__init__")
    => /\ out[1].exc = "none"
       /\ \/ out[1].val = Null
          \/ out[1].op = "get_data" /\ \A f \in DOMAIN out[1].val[1] : out[1].val[1][f] = Null

\* ================================================================ login
MaxAccounts == 2   \* most lines of accounts.txt
MaxLine == 5       \* longest line of accounts.txt

\* The lines of accounts.txt as f.readlines() gives them: texts of field
\* characters and ":".
AccountLines == StringsUpTo({"a", ":"}, MaxLine) \ {<< >>}
AccountFiles == UNION {[1..n -> AccountLines] : n \in 0..MaxAccounts}

\* random.randint(0, len(accounts) - 1): the indexes it may return, counted
\* from 1; on an empty range it raises ValueError.
RandInt(accounts) == 1..Len(accounts)

\* get_random_account with randint returning random_index: the except
\* clause names IndexError, which randint does not raise.
GetRandomAccount(accounts, random_index) ==
    IF RandInt(accounts) = {}
    THEN [exc |-> "ValueError", val |-> Null, logged |-> 0]
    ELSE LET random_account == Split(accounts[random_index], ":")
         IN  IF Len(random_account) < 3
             THEN [exc |-> "IndexError", val |-> Null, logged |-> 0]
             ELSE [exc |-> "none", logged |-> 0,
                   val |-> Some([email |-> random_account[1],
                                 username |-> random_account[2],
                                 password |-> random_account[3]])]

\* ProfileManager.login with a cookie manager and credentials: what it does
\* on the scraper. `typed` is the outcome of each _wait_and_type, in order.
TypeOutcomes == {"ok", "TimeoutException"}
Login(cookies_exist, typed) ==
    IF cookies_exist
    THEN [exc |-> "none", navs |-> 1, cookieLoads |-> 1, entries |-> 0]
    ELSE IF typed[1] # "ok"
    THEN [exc |-> typed[1], navs |-> 1, cookieLoads |-> 0, entries |-> 0]
    ELSE IF typed[2] # "ok"
    THEN [exc |-> typed[2], navs |-> 1, cookieLoads |-> 0, entries |-> 1]
    ELSE [exc |-> "none", navs |-> 1, cookieLoads |-> 0,
          entries |-> IF typed[3] = "ok" THEN 3 ELSE 2]

LoginInit ==
    /\ DriverIdle
    /\ inp \in AccountFiles
    /\ out = << >>
    /\ user = << >>
    /\ log = [noAccounts |-> 0, navs |-> 0, cookieLoads |-> 0, entries |-> 0]

\* One call login_to_x(scraper) with accounts.txt holding the lines inp.
LoginToX ==
    /\ out = << >>
    /\ \E random_index \in (IF inp = << >> THEN {0} ELSE RandInt(inp)),
          cookies_exist \in BOOLEAN, typed \in [1..3 -> TypeOutcomes] :
          \E random_account \in {GetRandomAccount(inp, random_index)} :
             IF random_account.exc # "none"
             THEN /\ out' = <<[exc |-> random_account.exc, val |-> Null]>>
                  /\ log' = log
             ELSE IF random_account.val = Null
             THEN /\ out' = <<[exc |-> "none", val |-> Null]>>
                  /\ log' = [log EXCEPT !.noAccounts = @ + 1]
             ELSE \E done \in {Login(cookies_exist, typed)} :
                  /\ out' = <<[exc |-> done.exc, val |-> random_account.val]>>
                  /\ log' = [log EXCEPT !.navs = done.navs,
                                        !.cookieLoads = done.cookieLoads,
                                        !.entries = done.entries]
    /\ UNCHANGED <<dvars, inp, user>>

LoginNext == LoginToX

LoginSpec == LoginInit /\ [][LoginNext]_vars

\* C21: with a credential file that holds no accounts login_to_x logs the
\* "No accounts found" message exactly once and returns without raising and
\* without navigation, cookie load or credential entry.
C21_NoAccountsReturns ==
    (out # << >> /\ inp = << >>)
    => /\ out[1].exc = "none"
       /\ log.noAccounts = 1
       /\ log.navs = 0
       /\ log.cookieLoads = 0
       /\ log.entries = 0

\* ==================================================== get_soup_element_text
MaxDepth == 2   \* deepest nesting of elements in the text container
MaxTop == 2     \* most nodes directly in the text container
MaxInner == 1   \* most nodes directly in an element of the container

\* The nodes of parsed markup: a text node, an <img> with its alt text, or
\* an element with its child nodes. <b> stands for the tags find_all is not
\* asked for.
TextNode(t) == [tag |-> "#text", text |-> t, children |-> << >>]
Img(alt) == [tag |-> "img", text |-> alt, children |-> << >>]
Element(tag, children) == [tag |-> tag, text |-> << >>, children |-> children]

NodeTexts == { <<"w">>, <<"v", " ">> }
Leaves == {TextNode(t) : t \in NodeTexts} \cup {Img(<<"e">>)}
SeqsUpTo(S, n) == UNION {[1..k -> S] : k \in 0..n}
RECURSIVE Nodes(_)
Nodes(depth) ==
    IF depth = 0 THEN Leaves
    ELSE Leaves \cup
         {Element(tag, children) :
             tag \in {"span", "b"}, children \in SeqsUpTo(Nodes(depth - 1), MaxInner)}

\* Tag.text: the text nodes below the node, concatenated.
RECURSIVE NodeText(_)
RECURSIVE NodesText(_)
NodeText(node) ==
    IF node.tag = "#text" THEN node.text ELSE NodesText(node.children)
NodesText(nodes) ==
    IF nodes = << >> THEN << >> ELSE NodeText(nodes[1]) \o NodesText(Tail(nodes))

\* soup.find_all(["span", "a", "div", "img"]): every matching element at any
\* depth, in document order.
Collected == {"span", "a", "div", "img"}
RECURSIVE FindAll(_)
FindAll(nodes) ==
    IF nodes = << >> THEN << >>
    ELSE (IF nodes[1].tag \in Collected THEN <<nodes[1]>> ELSE << >>)
         \o FindAll(nodes[1].children) \o FindAll(Tail(nodes))

\* " ".join(post_content)
RECURSIVE JoinSpace(_)
JoinSpace(parts) ==
    IF parts = << >> THEN << >>
    ELSE IF Len(parts) = 1 THEN parts[1]
    ELSE parts[1] \o <<" ">> \o JoinSpace(Tail(parts))

\* The piece one collected element adds to post_content, if any.
Piece(child) ==
    IF child.tag = "img"
    THEN (IF child.text # << >> THEN <<child.text>> ELSE << >>)
    ELSE (IF NodeText(child) # << >> THEN <<Strip(NodeText(child))>> ELSE << >>)

RECURSIVE Pieces(_)
Pieces(found) ==
    IF found = << >> THEN << >> ELSE Piece(found[1]) \o Pieces(Tail(found))

\* get_soup_element_text(soup)
GetSoupElementText(soup) == JoinSpace(Pieces(FindAll(soup)))

\* XPost.text: the container's contents, parsed again, flattened; None
\* without the container.
XPostText(text_element) ==
    IF ~text_element.present THEN Null
    ELSE Some(GetSoupElementText(text_element.content))

TextElements ==
    {[present |-> FALSE, content |-> << >>]} \cup
    {[present |-> TRUE, content |-> c] : c \in SeqsUpTo(Nodes(MaxDepth), MaxTop)}

FlatInit ==
    /\ DriverIdle
    /\ inp \in TextElements
    /\ out = << >>
    /\ user = << >>
    /\ log = << >>

\* One read of XPost.text on a post whose text container is inp.
FlatCall ==
    /\ out = << >>
    /\ out' = <<XPostText(inp)>>
    /\ UNCHANGED <<dvars, inp, user, log>>

FlatNext == FlatCall

FlatSpec == FlatInit /\ [][FlatNext]_vars

\* How often the symbol c occurs in s.
Occurrences(s, c) == Cardinality({i \in 1..Len(s) : s[i] = c})

\* The container holds one span in which one span holds one text node.
NestedOnce ==
    /\ Len(inp.content) = 1
    /\ inp.content[1].tag = "span"
    /\ Len(inp.content[1].children) = 1
    /\ inp.content[1].children[1].tag = "span"
    /\ Len(inp.content[1].children[1].children) = 1
    /\ inp.content[1].children[1].children[1].tag = "#text"

\* C22: a text container holding one plain text node flattens to that text
\* unchanged, and a text in one element nested inside another is in the
\* result exactly once.
C22_FlattenFlatAndOnce ==
    (out # << >> /\ inp.present)
    => /\ (Len(inp.content) = 1 /\ inp.content[1].tag = "#text")
             => out[1] = Some(inp.content[1].text)
       /\ NestedOnce
             => \A c \in {"w", "v"} :
                   Occurrences(out[1][1], c) = Occurrences(NodesText(inp.content), c)

\* ------------------------------------------------ the run, further claims
\* Post p is held: one accumulated record was parsed from it.
Held(p) == \E i \in 1..Len(user_posts) : user_posts[i].soup = p

\* C23: the run never returns because the scroll extent stopped growing:
\* after a stalled scroll a readable rendered post whose identifier (the
\* one its URL gives) is not yet held is accumulated and the run goes on,
\* and the run returns only with the target count reached.
C23_StallDoesNotStop ==
    [][ /\ ( ( /\ scrollGrew = "stalled"
               /\ pc = "read"
               /\ (pc' # pc \/ index' # index)
               /\ index <= Len(iter)
               /\ windowOpen
               /\ ~IsStale(iter[index])
               /\ ~Held(iter[index].p) )
             => ( /\ user_posts' # user_posts
                  /\ user_posts'[Len(user_posts')].soup = iter[index].p
                  /\ pc' \in {"read", "loop"} ) )
        /\ (pc # "done" /\ pc' = "done" => Len(user_posts) >= limit) ]_vars

\* C24: the accumulated list never holds more than max(limit, 0) records
\* and only grows at its end; a run that returns with limit >= 1 returns
\* exactly limit records, and with limit <= 0 it returns the empty list
\* without a scroll and without an element lookup.
C24_AtMostLimitInOrder ==
    /\ [](/\ Len(user_posts) <= (IF limit > 0 THEN limit ELSE 0)
          /\ (pc = "done" /\ limit >= 1 => Len(user_posts) = limit)
          /\ (pc = "done" /\ limit <= 0 =>
                 /\ user_posts = << >>
                 /\ scrollGrew = "none"
                 /\ phase = "none"))
    /\ [][IsPrefix(user_posts, user_posts')]_vars

\* C24 witness: a run asked for one post returned one record.
C24_Witness ==
    /\ pc = "done"
    /\ limit = 1
    /\ Len(user_posts) = 1
    /\ phase # "none"

-----------------------------------------------------------------------------
\* Xtractor._handle_stale_element / Xtractor.get_element, one lookup a step.

MaxRetries == 4    \* largest `retries` argument drawn

\* What one lookup can end in: the element with its tag_name readable, a
\* stale reference, not found, the wait's timeout, or any other driver error
\* (a closed window, say), which no except clause of the guard names.
GuardOutcomes == AttemptOutcomes \cup {"WebDriverException"}

\* The try/except of one iteration: return the element, sleep and go round
\* again, break out of the loop, or let the exception through.
AfterAttemptRetriesAll(outcome) ==
    IF outcome = "found" THEN "return"
    ELSE IF outcome = "WebDriverException" THEN "raise"
    ELSE "retry"
AfterAttempt(outcome) ==
    IF outcome = "found" THEN "return"
    ELSE IF outcome = "stale" THEN "retry"
    ELSE IF outcome \in {"NoSuchElementException", "TimeoutException"} THEN "break"
    ELSE "raise"

\* The lookup of get_element without the guard: the wait on the whole page
\* when no parent is given, parent.find_element otherwise; nothing is caught.
PlainOutcomes(element) ==
    IF element = Null
    THEN {"found", "TimeoutException", "WebDriverException"}
    ELSE {"found", "NoSuchElementException", "StaleElementReferenceException",
          "WebDriverException"}

GuardCalls ==
    {[fn |-> "_handle_stale_element", retries |-> r, element |-> Null,
      handle_stale |-> TRUE] : r \in (-1)..MaxRetries}
    \cup {[fn |-> "get_element", retries |-> Retries, element |-> e,
           handle_stale |-> h] : e \in {Null, Some("parent")}, h \in BOOLEAN}

GuardInit ==
    /\ DriverIdle
    /\ inp \in GuardCalls
    /\ out = << >>
    /\ user = [pc |-> IF inp.fn = "get_element" THEN "call" ELSE "for"]
    /\ log = [tries |-> << >>, sleeps |-> 0]

\* get_element: `if handle_stale: return self._handle_stale_element(by, value)`
GetElement ==
    /\ user.pc = "call"
    /\ user' = [user EXCEPT !.pc = IF inp.handle_stale THEN "for" ELSE "plain"]
    /\ UNCHANGED <<dvars, inp, out, log>>

\* get_element with handle_stale=False.
PlainLookup ==
    /\ user.pc = "plain"
    /\ \E outcome \in PlainOutcomes(inp.element) :
         /\ log' = [log EXCEPT !.tries = Append(@, outcome)]
         /\ out' = IF outcome = "found"
                   THEN <<[element |-> Some(Len(log.tries) + 1), exc |-> "none"]>>
                   ELSE <<[element |-> Null, exc |-> outcome]>>
    /\ user' = [user EXCEPT !.pc = "returned"]
    /\ UNCHANGED <<dvars, inp>>

\* One iteration of `for attempt in range(retries)`.
HandleStaleAttempt ==
    /\ user.pc = "for"
    /\ Len(log.tries) < inp.retries
    /\ \E outcome \in GuardOutcomes :
         \E after \in {AfterAttempt(outcome)} :
           /\ log' = [tries |-> Append(log.tries, outcome),
                      sleeps |-> log.sleeps + (IF after = "retry" THEN 1 ELSE 0)]
           /\ user' = [user EXCEPT !.pc = IF after = "retry" THEN "for" ELSE "returned"]
           /\ out' = CASE after = "return" ->
                            <<[element |-> Some(Len(log.tries) + 1), exc |-> "none"]>>
                       [] after = "break" -> <<[element |-> Null, exc |-> "none"]>>
                       [] after = "raise" -> <<[element |-> Null, exc |-> outcome]>>
                       [] OTHER -> out
    /\ UNCHANGED <<dvars, inp>>

\* The range is used up: `return None`.
HandleStaleExhausted ==
    /\ user.pc = "for"
    /\ Len(log.tries) >= inp.retries
    /\ out' = <<[element |-> Null, exc |-> "none"]>>
    /\ user' = [user EXCEPT !.pc = "returned"]
    /\ UNCHANGED <<dvars, inp, log>>

GuardNext == GetElement \/ PlainLookup \/ HandleStaleAttempt \/ HandleStaleExhausted

GuardSpec == GuardInit /\ [][GuardNext]_vars

Guarded == inp.fn = "_handle_stale_element" \/ inp.handle_stale

\* C25: the guard makes at most `retries` lookups; every lookup but the last
\* ended in a stale reference, each followed by one sleep; a not-found or
\* timeout ends the call at once with None; an element is returned only from
\* the attempt that found it and read its tag_name; and when every attempt was
\* stale the call has returned None, without an exception, after exactly
\* max(retries, 0) lookups.  For the default number of retries the result is
\* that of HandleStaleElement.
C25_BoundedRetry ==
    Guarded =>
      LET tries == log.tries
          n == Len(tries)
          budget == IF inp.retries > 0 THEN inp.retries ELSE 0
          allStale == \A i \in 1..n : tries[i] = "stale"
      IN  /\ n <= budget
          /\ \A i \in 1..(n - 1) : tries[i] = "stale"
          /\ log.sleeps = Cardinality({i \in 1..n : tries[i] = "stale"})
          /\ (user.pc = "returned") <=> (out # << >>)
          /\ (n > 0 /\ tries[n] \in {"NoSuchElementException", "TimeoutException"})
                => (out # << >> /\ out[1] = [element |-> Null, exc |-> "none"])
          /\ (out # << >> /\ out[1].element # Null)
                => (n > 0 /\ tries[n] = "found" /\ out[1].element = Some(n))
          /\ (n > 0 /\ tries[n] = "found") => (out # << >> /\ out[1].element = Some(n))
          /\ (allStale /\ out # << >>)
                => (n = budget /\ out[1] = [element |-> Null, exc |-> "none"])
          /\ (allStale /\ n < budget) => out = << >>
          /\ (out # << >> /\ inp.retries = Retries /\ out[1].exc = "none")
                => LET padded == [i \in 1..Retries |->
                                     IF i <= n THEN tries[i] ELSE "stale"]
                       closed == HandleStaleElement(padded, 1)
                   IN  /\ (closed.element = Null) <=> (out[1].element = Null)
                       /\ closed.attempts = n

C25_Witness ==
    /\ inp.fn = "get_element" /\ inp.handle_stale
    /\ log.tries = <<"stale", "stale", "stale">>
    /\ log.sleeps = 3
    /\ out = <<[element |-> Null, exc |-> "none"]>>

-----------------------------------------------------------------------------
\* XUser.get_data: the record built from the accessors.

AllPresent ==
    /\ out # << >>
    /\ out[1].op = "get_data"
    /\ "kwargs" \in DOMAIN out[1]
    /\ user.profile_element # Null
    /\ \A f \in DOMAIN out[1].kwargs : out[1].kwargs[f] # Null

\* C26: on a profile whose region and markers are all present, get_data
\* returns a UserData whose ten fields (bio among them) hold the accessors'
\* values, and building the record does not fail.
C26_GetDataAllFields ==
    AllPresent
    => /\ out[1].exc = "none"
       /\ out[1].val # Null
       /\ DOMAIN out[1].val[1] = UserDataFields
       /\ "bio" \in DOMAIN out[1].kwargs
       /\ \A f \in DOMAIN out[1].kwargs : out[1].val[1][f] = out[1].kwargs[f]

====
